---- MODULE Spec2Model ----
(***************************************************************************)
(* Model of ml3d/vis/labellut.py (LabelLUT) and of                         *)
(* ml3d/torch/pipelines/semantic_segmentation.py (SemanticSegmentation:    *)
(* load_ckpt, save_ckpt, run_train, run_test, update_tests).               *)
(*                                                                         *)
(* Colors are RGB triples in units of 1/2040, the smallest unit in which   *)
(* every component of LabelLUT.COLORS and of the fallback color is an      *)
(* integer (k/255 = 8k/2040, 0.125 = 255/2040).                            *)
(***************************************************************************)
EXTENDS Integers, Sequences, FiniteSets, TLC

VARIABLES
    \* ---- LabelLUT object
    lut_state,      \* "new" before LabelLUT(...) has returned, "ready" after
    next_color,     \* self._next_color
    labels,         \* self.labels: dict value -> Label
    colors,         \* self.colors: the palette chosen at construction
    call,           \* arguments of the most recent add_label call
    \* ---- SemanticSegmentation pipeline object and its files
    model_state,    \* self.model.state_dict()
    opt_state,      \* self.optimizer.state_dict()
    sched_state,    \* self.scheduler.state_dict()
    has_opt,        \* hasattr(self, 'optimizer') and hasattr(self, 'scheduler')
    fs,             \* the files torch.save wrote: path -> checkpoint dict
    ckpt_dir,       \* whether <logs_dir>/checkpoint exists
    raised,         \* the exception the most recent call raised, or "none"
    op,             \* the most recent call and its arguments
    saved_at,       \* path -> the pipeline state when save_ckpt wrote it
    \* ---- run_train
    pc,             \* where run_train is
    cfg,            \* the configuration run_train reads
    epoch,          \* the loop variable of run_train
    step,           \* the batch index within the current loader
    passes,         \* training and validation passes completed
    written,        \* the checkpoints save_ckpt wrote during run_train
    events,         \* the calls run_train made before the loop, then in the current epoch
    \* ---- run_test / update_tests, and the sampler they read
    sampler,        \* test_sampler: split, cloud_id, possibilities
    curr_cloud_id,  \* self.curr_cloud_id
    test_probs,     \* self.test_probs
    test_labels,    \* self.test_labels
    ori_test_probs, \* self.ori_test_probs
    ori_test_labels,\* self.ori_test_labels
    complete_infer, \* self.complete_infer ("unset" before the first update_tests)
    summary,        \* self.summary
    saved           \* the results passed to dataset.save_test_result

lutVars == <<lut_state, next_color, labels, colors, call>>
ckptVars == <<model_state, opt_state, sched_state, has_opt, fs, ckpt_dir,
              raised, op, saved_at>>

trainVars == <<pc, cfg, epoch, step, passes, written, events>>

testVars == <<sampler, curr_cloud_id, test_probs, test_labels, ori_test_probs,
              ori_test_labels, complete_infer, summary, saved>>

vars == <<lutVars, ckptVars, trainVars, testVars>>

\* ------------------------------------------------------------------ bounds
MaxValue == 1          \* label values are 0..MaxValue
MaxAdds == 11          \* add_label calls made after construction
NumStates == 2         \* distinct state_dict contents of model/optimizer/scheduler
MaxSaveEpoch == 1      \* save_ckpt is called with an epoch in 0..MaxSaveEpoch
MaxEpochCfg == 2       \* cfg.max_epoch is in 0..MaxEpochCfg
MaxCalls == 7          \* calls made on the pipeline object
MaxFreq == 2           \* cfg.save_ckpt_freq is in 1..MaxFreq
MaxBatches == 2        \* a data loader yields 1..MaxBatches batches
NumClouds == 2         \* point clouds of the test split
NumPoints == 2         \* points of each cloud
MaxTestBatches == 3    \* batches test_loader yields

Values == 0..MaxValue
Names == {"a", "b"}

\* ---------------------------------------------------------------- LabelLUT
COLORS_default ==
    << <<0, 0, 0>>, <<1960, 1200, 800>>, <<1960, 1840, 800>>,
       <<1200, 480, 240>>, <<1440, 240, 640>>, <<2040, 0, 0>>,
       <<240, 240, 2040>>, <<1600, 320, 2040>>, <<720, 240, 1200>>,
       <<2040, 0, 2040>>, <<2040, 1200, 2040>>, <<600, 0, 600>>,
       <<600, 0, 1400>>, <<0, 1600, 2040>>, <<400, 960, 2040>>,
       <<0, 1400, 0>>, <<0, 480, 1080>>, <<640, 1920, 1200>>,
       <<1200, 1920, 2040>>, <<0, 0, 2040>>, <<2040, 2040, 510>>,
       <<1020, 2040, 510>>, <<510, 2040, 510>>, <<510, 2040, 1020>>,
       <<510, 2040, 2550>>, <<510, 1020, 2550>>, <<510, 510, 2040>>,
       <<255, 255, 255>>, <<510, 510, 510>>, <<765, 765, 765>>,
       <<1020, 1020, 1020>>, <<1275, 1275, 1275>>, <<1530, 1530, 1530>>,
       <<1785, 1785, 1785>> >>

COLORS_spectrum ==
    << <<0, 1536, 1592>>, <<648, 544, 1688>>, <<1856, 1080, 208>>,
       <<1744, 416, 1152>>, <<1152, 1096, 2000>>, <<568, 1808, 888>>,
       <<312, 1024, 1880>>, <<888, 448, 1416>>, <<1784, 1528, 24>>,
       <<1624, 888, 128>>, <<304, 1128, 864>>, <<1240, 1888, 672>> >>

COLORS == [default |-> COLORS_default, spectrum |-> COLORS_spectrum]

\* color = [0.85, 1.0, 1.0], used once the palette is exhausted
FallbackColor == <<1734, 2040, 2040>>

\* color=None
NoColor == << >>

\* the explicit color a caller passes: the docstring's blue [0, 0, 1], which
\* is also entry 19 of the default palette
UserColors == { <<0, 0, 2040>> }

Label(name, value, color) == [name |-> name, value |-> value, color |-> color]

\* the lookup table as a value: the three attributes set by __init__
LUT(nc, ls, cs) == [next_color |-> nc, labels |-> ls, colors |-> cs]

\* the color add_label stores (Python indexes the palette from 0)
AddLabelColor(lut, color) ==
    IF color = NoColor
    THEN IF lut.next_color >= Len(lut.colors)
         THEN FallbackColor
         ELSE lut.colors[lut.next_color + 1]
    ELSE color

\* mutant: the cursor advances for explicitly colored labels too
AddLabelCursor_Always(lut, color) ==
    IF lut.next_color >= Len(lut.colors)
    THEN lut.next_color
    ELSE lut.next_color + 1

\* the palette cursor after add_label
AddLabelCursor(lut, color) ==
    IF color = NoColor /\ ~(lut.next_color >= Len(lut.colors))
    THEN lut.next_color + 1
    ELSE lut.next_color

\* mutant: an entry already present is kept
AddLabelStore_KeepFirst(ls, name, value, color) ==
    [v \in DOMAIN ls \cup {value} |->
        IF v \in DOMAIN ls THEN ls[v] ELSE Label(name, value, color)]

\* mutant: the table is rebuilt around the new entry
AddLabelStore_Reset(ls, name, value, color) ==
    [v \in {value} |-> Label(name, value, color)]

\* self.labels[value] = self.Label(name, value, color)
AddLabelStore(ls, name, value, color) ==
    [v \in DOMAIN ls \cup {value} |->
        IF v = value THEN Label(name, value, color) ELSE ls[v]]

\* add_label(name, value, color) on a lookup table
add_label(lut, name, value, color) ==
    LUT(AddLabelCursor(lut, color),
        AddLabelStore(lut.labels, name, value, AddLabelColor(lut, color)),
        lut.colors)

Min(S) == CHOOSE x \in S : \A y \in S : x <= y

\* for val in sorted(label_to_names.keys()): self.add_label(label_to_names[val], val)
RECURSIVE AddSorted(_, _, _)
AddSorted(lut, label_to_names, keys) ==
    IF keys = {} THEN lut
    ELSE LET val == Min(keys)
         IN AddSorted(add_label(lut, label_to_names[val], val, NoColor),
                      label_to_names, keys \ {val})

\* LabelLUT.__init__(label_to_names, colormap); given = FALSE is label_to_names=None
LabelLUTInit(given, label_to_names, colormap) ==
    LET empty == LUT(0, << >>, COLORS[colormap])
    IN IF given
       THEN AddSorted(empty, label_to_names, DOMAIN label_to_names)
       ELSE empty

Dicts == UNION { [D -> Names] : D \in SUBSET Values }

\* call.n counts the add_label calls made after construction, call.autos
\* the calls so far (the constructor's included) that passed no color
NoCall == [name |-> "", value |-> -1, color |-> NoColor, n |-> 0, autos |-> 0]

LUTNew ==
    /\ lut_state = "new"
    /\ next_color = 0
    /\ labels = << >>
    /\ colors = << >>
    /\ call = NoCall

\* ------------------------------------------------- checkpoints (pipeline)
None == "None"

\* os.path.join
join(a, b) == a \o "/" \o b

\* cfg.logs_dir
LogsDir == "./logs"

\* join(self.cfg.logs_dir, 'checkpoint')
TrainCkptDir == join(LogsDir, "checkpoint")

\* f'{epoch:05d}': decimal digits, zero-padded on the left to width 5
RECURSIVE ZeroPad(_, _)
ZeroPad(str, width) == IF Len(str) >= width THEN str ELSE ZeroPad("0" \o str, width)

\* join(path_ckpt, f'ckpt_{epoch:05d}.pth')
CkptPath(e) ==
    join(TrainCkptDir, "ckpt_" \o ZeroPad(ToString(e), 5) \o ".pth")

\* a weights file outside the checkpoint directory, and a path that names no file
PretrainedPath == "pretrained.pth"
MissingPath == "missing.pth"

\* the epochs whose checkpoint may be in the directory
EpochNames == 0..(IF MaxSaveEpoch > MaxEpochCfg THEN MaxSaveEpoch ELSE MaxEpochCfg)

\* the paths load_ckpt is called with
Paths == {CkptPath(e) : e \in 0..MaxSaveEpoch} \cup {PretrainedPath, MissingPath}

States == 0..(NumStates - 1)

\* the effect of one optimizer.step() / scheduler.step() on a state_dict
Stepped(x) == (x + 1) % NumStates

\* mutant: the scheduler state is left out of the checkpoint
CkptDict_NoScheduler(e, m, o, s) ==
    [epoch |-> e, model_state_dict |-> m, optimizer_state_dict |-> o]

\* dict(epoch=epoch, model_state_dict=..., optimizer_state_dict=..., scheduler_state_dict=...)
CkptDict(e, m, o, s) ==
    [epoch |-> e, model_state_dict |-> m, optimizer_state_dict |-> o,
     scheduler_state_dict |-> s]

\* torch.save(obj, path)
TorchSave(files, path, obj) ==
    [q \in DOMAIN files \cup {path} |-> IF q = path THEN obj ELSE files[q]]

\* os.path.exists
exists(files, path) == path \in DOMAIN files

\* latest_torch_ckpt(train_ckpt_dir): the checkpoint of the directory with the
\* highest epoch in its name, None when the directory holds none
latest_torch_ckpt(files) ==
    LET held == {e \in EpochNames : CkptPath(e) \in DOMAIN files}
    IN IF held = {} THEN None
       ELSE CkptPath(CHOOSE e \in held : \A d \in held : d <= e)

\* the outcome of a call: what it raised and the state it left
Outcome(exc, m, o, s) == [raised |-> exc, model |-> m, opt |-> o, sched |-> s]

\* if not exists(ckpt_path): raise FileNotFoundError
CkptMissing(files, path) == ~exists(files, path)

\* mutant: is_resume is not consulted
ReturnsFromScratch_NoResume(ckpt_path, latest, is_resume) ==
    ckpt_path = None /\ ~(latest # None)

\* mutant: without a ckpt_path nothing is ever restored
ReturnsFromScratch_NonePath(ckpt_path, latest, is_resume) ==
    ckpt_path = None

\* the branch of load_ckpt that logs 'Initializing from scratch.' and returns
ReturnsFromScratch(ckpt_path, latest, is_resume) ==
    ckpt_path = None /\ ~(latest # None /\ is_resume)

\* if key in ckpt and hasattr(self, attr): attr.load_state_dict(ckpt[key])
LoadedPart(ckpt, key, has_attr, current) ==
    IF key \in DOMAIN ckpt /\ has_attr THEN ckpt[key] ELSE current

\* mutant: a ckpt_path that names no file is logged and skipped
load_ckpt_QuietMissing(files, has_attr, m, o, s, ckpt_path, is_resume) ==
    LET latest == latest_torch_ckpt(files)
        path == IF ckpt_path = None THEN latest ELSE ckpt_path
    IN IF ReturnsFromScratch(ckpt_path, latest, is_resume) \/ CkptMissing(files, path)
       THEN Outcome("none", m, o, s)
       ELSE LET ckpt == files[path]
            IN Outcome("none", ckpt.model_state_dict,
                       LoadedPart(ckpt, "optimizer_state_dict", has_attr, o),
                       LoadedPart(ckpt, "scheduler_state_dict", has_attr, s))

\* load_ckpt(ckpt_path, is_resume) on a pipeline in state (m, o, s)
load_ckpt(files, has_attr, m, o, s, ckpt_path, is_resume) ==
    LET latest == latest_torch_ckpt(files)
        path == IF ckpt_path = None THEN latest ELSE ckpt_path
    IN IF ReturnsFromScratch(ckpt_path, latest, is_resume)
       THEN Outcome("none", m, o, s)
       ELSE IF CkptMissing(files, path)
       THEN Outcome("FileNotFoundError", m, o, s)
       ELSE LET ckpt == files[path]
            IN Outcome("none", ckpt.model_state_dict,
                       LoadedPart(ckpt, "optimizer_state_dict", has_attr, o),
                       LoadedPart(ckpt, "scheduler_state_dict", has_attr, s))

\* op.pre is the pipeline state a load_ckpt call started from, op.n the
\* number of calls made so far
NoOp == [name |-> "init", ckpt_path |-> None, is_resume |-> TRUE, epoch |-> -1,
         pre |-> <<0, 0, 0>>, n |-> 0]

Called(name) == [NoOp EXCEPT !.name = name, !.n = op.n + 1]

\* the files present before the pipeline runs: none, or pretrained weights
\* saved without optimizer and scheduler state
InitialFiles ==
    { << >>, [q \in {PretrainedPath} |-> [model_state_dict |-> NumStates - 1]] }

PipelineNew ==
    /\ model_state = 0
    /\ opt_state = 0
    /\ sched_state = 0
    /\ has_opt = FALSE
    /\ ckpt_dir = FALSE
    /\ raised = "none"
    /\ op = NoOp
    /\ saved_at = << >>

\* run_train has not been called
NoCfg == [max_epoch |-> 0, save_ckpt_freq |-> 1, is_resume |-> TRUE,
          ckpt_path |-> None, n_train |-> 1, n_valid |-> 1]

TrainIdle ==
    /\ pc = "idle"
    /\ cfg = NoCfg
    /\ epoch = 0
    /\ step = 0
    /\ passes = [train |-> 0, valid |-> 0]
    /\ written = {}
    /\ events = << >>

\* possibilities in tenths: 0.5 is 5
end_threshold == 5

\* a point's possibility: below, at and above the threshold
Possibility == {0, end_threshold, end_threshold + 1}

\* run_test has not been called
TestIdle ==
    /\ sampler = [split |-> "test", cloud_id |-> 0,
                  possibilities |-> [c \in 1..NumClouds |-> [i \in 1..NumPoints |-> 0]]]
    /\ curr_cloud_id = -1
    /\ test_probs = << >>
    /\ test_labels = << >>
    /\ ori_test_probs = << >>
    /\ ori_test_labels = << >>
    /\ complete_infer = "unset"
    /\ summary = << >>
    /\ saved = << >>

InitLUT == LUTNew /\ PipelineNew /\ TrainIdle /\ TestIdle /\ fs = << >>

\* lut = LabelLUT(label_to_names, colormap)
Construct ==
    /\ lut_state = "new"
    /\ \E given \in BOOLEAN, label_to_names \in Dicts,
          colormap \in {"default", "spectrum"} :
          LET lut == LabelLUTInit(given, label_to_names, colormap)
          IN /\ next_color' = lut.next_color
             /\ labels' = lut.labels
             /\ colors' = lut.colors
             /\ call' = [NoCall EXCEPT !.autos =
                            IF given THEN Cardinality(DOMAIN label_to_names) ELSE 0]
    /\ lut_state' = "ready"
    /\ UNCHANGED <<ckptVars, trainVars, testVars>>

\* lut.add_label(name, value, color)
AddLabel ==
    /\ lut_state = "ready"
    /\ call.n < MaxAdds
    /\ \E name \in Names, value \in Values, color \in UserColors \cup {NoColor} :
          LET lut == add_label(LUT(next_color, labels, colors), name, value, color)
          IN /\ next_color' = lut.next_color
             /\ labels' = lut.labels
             /\ colors' = lut.colors
             /\ call' = [name |-> name, value |-> value, color |-> color,
                         n |-> call.n + 1,
                         autos |-> call.autos + (IF color = NoColor THEN 1 ELSE 0)]
    /\ UNCHANGED <<lut_state, ckptVars, trainVars, testVars>>

NextLUT == Construct \/ AddLabel

SpecLUT == InitLUT /\ [][NextLUT]_vars

\* an add_label call made after construction has just returned
AddLabelReturned == lut_state = "ready" /\ call'.n = call.n + 1

\* C5: after construction and after every add_label call the table is keyed
\* by the labels' own values (labels[v].value = v), the keys are the keys
\* held before plus the value just added (re-adding a value creates no
\* second entry), and the entry of the value just added carries the name
\* and the explicit color of that last call.
C5_KeyedByValueLastAddWins ==
    [][ /\ (lut_state' = "ready" => \A v \in DOMAIN labels' : labels'[v].value = v)
        /\ (AddLabelReturned =>
               /\ DOMAIN labels' = DOMAIN labels \cup {call'.value}
               /\ labels'[call'.value].name = call'.name
               /\ (call'.color # NoColor =>
                      labels'[call'.value].color = call'.color)) ]_vars

\* C5 witness: a value was added again under another name and the table
\* still holds a single entry, with the later name.
C5_Witness ==
    /\ lut_state = "ready"
    /\ call.n >= 2
    /\ DOMAIN labels = {call.value}
    /\ labels[call.value].name = "b"
    /\ call.name = "b"

\* C6 (as stated): once the constructor has returned, nothing changes the
\* labels of the table.
C6_StaticAfterConstruction ==
    [][ lut_state = "ready" => labels' = labels ]_vars

\* C6 (amended): once the constructor has returned, the table changes only
\* through add_label; a call add_label(name, value, ...) leaves the palette
\* and every entry other than the one for value as it was, and removes none.
C6_OnlyAddedEntryChanges ==
    [][ lut_state = "ready" =>
          /\ colors' = colors
          /\ (labels' # labels => call'.n = call.n + 1)
          /\ \A v \in DOMAIN labels :
                 v # call'.value => v \in DOMAIN labels' /\ labels'[v] = labels[v] ]_vars

\* C6 witness: an add_label call after construction, on a table that holds
\* an entry for another value.
C6_Witness ==
    /\ lut_state = "ready"
    /\ call.n >= 1
    /\ Cardinality(DOMAIN labels) >= 2

\* C8: add_label with an explicit color stores exactly that color and
\* leaves _next_color and every other label unchanged; so the k-th label
\* added without a color gets palette entry k-1 (the fallback color once
\* the palette is used up), however many explicitly colored labels were
\* added before it.
C8_ExplicitColorFrame ==
    [][ AddLabelReturned =>
          IF call'.color # NoColor
          THEN /\ labels'[call'.value].color = call'.color
               /\ next_color' = next_color
               /\ \A v \in DOMAIN labels \ {call'.value} :
                      v \in DOMAIN labels' /\ labels'[v] = labels[v]
          ELSE labels'[call'.value].color =
                  IF call.autos < Len(colors)
                  THEN colors[call.autos + 1]
                  ELSE FallbackColor ]_vars

\* C8 witness: an explicitly colored label was just added to a table that
\* holds an automatically colored one and whose cursor has advanced.
C8_Witness ==
    /\ lut_state = "ready"
    /\ call.n >= 2
    /\ call.color # NoColor
    /\ next_color > 0
    /\ \E v \in DOMAIN labels : v # call.value /\ labels[v].color = colors[1]

\* the palette was used up and a label got the fallback color
FallbackReached ==
    /\ lut_state = "ready"
    /\ next_color = Len(colors)
    /\ \E v \in DOMAIN labels : labels[v].color = FallbackColor

\* ------------------------------------------- load_ckpt / save_ckpt calls
InitCkpt == LUTNew /\ PipelineNew /\ TrainIdle /\ TestIdle /\ fs \in InitialFiles

\* self.optimizer, self.scheduler = model.get_optimizer(cfg)
GetOptimizer ==
    /\ op.n < MaxCalls
    /\ has_opt' = TRUE
    /\ opt_state' = 0
    /\ sched_state' = 0
    /\ raised' = "none"
    /\ op' = Called("get_optimizer")
    /\ UNCHANGED <<model_state, fs, ckpt_dir, saved_at, lutVars, trainVars, testVars>>

\* self.load_ckpt(ckpt_path, is_resume)
LoadCkpt ==
    \E ckpt_path \in Paths \cup {None}, is_resume \in BOOLEAN :
       LET out == load_ckpt(fs, has_opt, model_state, opt_state, sched_state,
                            ckpt_path, is_resume)
       IN /\ op.n < MaxCalls
          /\ ckpt_dir' = TRUE
          /\ raised' = out.raised
          /\ model_state' = out.model
          /\ opt_state' = out.opt
          /\ sched_state' = out.sched
          /\ op' = [Called("load_ckpt") EXCEPT
                      !.ckpt_path = ckpt_path, !.is_resume = is_resume,
                      !.pre = <<model_state, opt_state, sched_state>>]
          /\ UNCHANGED <<has_opt, fs, saved_at, lutVars, trainVars, testVars>>

\* self.save_ckpt(epoch); without an optimizer attribute the dict cannot be built
SaveCkpt ==
    \E e \in 0..MaxSaveEpoch :
       /\ op.n < MaxCalls
       /\ ckpt_dir' = TRUE
       /\ op' = [Called("save_ckpt") EXCEPT !.epoch = e]
       /\ IF has_opt
          THEN /\ fs' = TorchSave(fs, CkptPath(e),
                           CkptDict(e, model_state, opt_state, sched_state))
               /\ saved_at' = [q \in DOMAIN saved_at \cup {CkptPath(e)} |->
                                 IF q = CkptPath(e)
                                 THEN <<model_state, opt_state, sched_state>>
                                 ELSE saved_at[q]]
               /\ raised' = "none"
          ELSE /\ raised' = "AttributeError"
               /\ UNCHANGED <<fs, saved_at>>
       /\ UNCHANGED <<model_state, opt_state, sched_state, has_opt, lutVars, trainVars, testVars>>

\* self.optimizer.step(): a training step changes the weights and the optimizer
OptimizerStep ==
    /\ op.n < MaxCalls
    /\ has_opt
    /\ model_state' = Stepped(model_state)
    /\ opt_state' = Stepped(opt_state)
    /\ raised' = "none"
    /\ op' = Called("optimizer.step")
    /\ UNCHANGED <<sched_state, has_opt, fs, ckpt_dir, saved_at, lutVars, trainVars, testVars>>

\* self.scheduler.step()
SchedulerStep ==
    /\ op.n < MaxCalls
    /\ has_opt
    /\ sched_state' = Stepped(sched_state)
    /\ raised' = "none"
    /\ op' = Called("scheduler.step")
    /\ UNCHANGED <<model_state, opt_state, has_opt, fs, ckpt_dir, saved_at, lutVars, trainVars, testVars>>

NextCkpt == GetOptimizer \/ LoadCkpt \/ SaveCkpt \/ OptimizerStep \/ SchedulerStep

SpecCkpt == InitCkpt /\ [][NextCkpt]_vars

PipelineState == <<model_state, opt_state, sched_state>>

\* a load_ckpt call has just returned or raised
LoadCkptCalled == op'.name = "load_ckpt" /\ op'.n = op.n + 1

\* C1: load_ckpt with a ckpt_path that is not None and names no file raises
\* FileNotFoundError and leaves model, optimizer and scheduler state as they
\* were.
C1_MissingPathRaises ==
    [][ (LoadCkptCalled /\ op'.ckpt_path # None /\ op'.ckpt_path \notin DOMAIN fs) =>
           /\ raised' = "FileNotFoundError"
           /\ PipelineState' = PipelineState ]_vars

\* C1 witness: load_ckpt raised on a missing path although the checkpoint
\* directory holds a checkpoint whose state differs from the pipeline's.
C1_Witness ==
    /\ op.name = "load_ckpt"
    /\ op.ckpt_path = MissingPath
    /\ raised = "FileNotFoundError"
    /\ \E q \in DOMAIN saved_at : saved_at[q] # PipelineState

\* C3: load_ckpt on a file written by save_ckpt, on a pipeline that has an
\* optimizer and a scheduler, leaves model, optimizer and scheduler state
\* equal to the state at the time of that save.
C3_RoundTrip ==
    [][ (LoadCkptCalled /\ has_opt /\ op'.ckpt_path \in DOMAIN saved_at) =>
           /\ raised' = "none"
           /\ PipelineState' = saved_at[op'.ckpt_path] ]_vars

\* C3 witness: a checkpoint was loaded back after model, optimizer and
\* scheduler had all moved away from the saved state.
C3_Witness ==
    /\ op.name = "load_ckpt"
    /\ op.ckpt_path \in DOMAIN saved_at
    /\ has_opt
    /\ PipelineState = saved_at[op.ckpt_path]
    /\ \A i \in 1..3 : op.pre[i] # PipelineState[i]

\* C10 (as stated): with is_resume False, load_ckpt leaves model, optimizer
\* and scheduler state as they were, for every ckpt_path.
C10_NoResumeRestoresNothing ==
    [][ (LoadCkptCalled /\ ~op'.is_resume) => PipelineState' = PipelineState ]_vars

\* C10 (amended): with is_resume False and ckpt_path None, load_ckpt returns
\* without raising and leaves model, optimizer and scheduler state as they
\* were, whether or not the checkpoint directory holds checkpoints.
C10_NoResumeNoPathRestoresNothing ==
    [][ (LoadCkptCalled /\ ~op'.is_resume /\ op'.ckpt_path = None) =>
           /\ raised' = "none"
           /\ PipelineState' = PipelineState ]_vars

\* C10 witness: load_ckpt(None, is_resume=False) returned while the
\* checkpoint directory held a checkpoint whose state differs from the
\* pipeline's.
C10_Witness ==
    /\ op.name = "load_ckpt"
    /\ op.ckpt_path = None
    /\ ~op.is_resume
    /\ latest_torch_ckpt(fs) # None
    /\ saved_at[latest_torch_ckpt(fs)] # PipelineState

\* the checkpoints held by <logs_dir>/checkpoint
CkptDirFiles == DOMAIN fs \ {PretrainedPath}

\* C11: load_ckpt with ckpt_path None and is_resume True restores the model
\* (and, when the pipeline has them, the optimizer and the scheduler) from
\* the checkpoint of <logs_dir>/checkpoint with the highest epoch when the
\* directory holds one; when it holds none the call returns without raising
\* and leaves model, optimizer and scheduler state as they were.
C11_ResumesFromLatest ==
    [][ (LoadCkptCalled /\ op'.ckpt_path = None /\ op'.is_resume) =>
          /\ raised' = "none"
          /\ IF CkptDirFiles = {}
             THEN PipelineState' = PipelineState
             ELSE \E q \in CkptDirFiles :
                     /\ \A r \in CkptDirFiles : fs[r].epoch <= fs[q].epoch
                     /\ model_state' = fs[q].model_state_dict
                     /\ opt_state' = IF has_opt THEN fs[q].optimizer_state_dict
                                     ELSE opt_state
                     /\ sched_state' = IF has_opt THEN fs[q].scheduler_state_dict
                                       ELSE sched_state ]_vars

\* C11 witness: the directory holds the checkpoints of two epochs with
\* different contents, and load_ckpt(None, is_resume=True) has moved the
\* pipeline to the state saved in the later one.
C11_Witness ==
    /\ op.name = "load_ckpt"
    /\ op.ckpt_path = None
    /\ op.is_resume
    /\ raised = "none"
    /\ {CkptPath(0), CkptPath(1)} \subseteq DOMAIN fs
    /\ saved_at[CkptPath(0)] # saved_at[CkptPath(1)]
    /\ PipelineState = saved_at[CkptPath(1)]
    /\ op.pre # PipelineState

\* load_ckpt(None, is_resume=True) returned from an empty checkpoint
\* directory, with weights present elsewhere
C11_FromScratch ==
    /\ op.name = "load_ckpt"
    /\ op.ckpt_path = None
    /\ op.is_resume
    /\ raised = "none"
    /\ DOMAIN fs = {PretrainedPath}

\* ----------------------------------------------------------------- run_train
\* mutant: the loop stops before max_epoch
EpochRange_Exclusive(max_epoch) == 0..(max_epoch - 1)

\* range(0, max_epoch + 1) is 0, 1, ..., max_epoch
EpochRange(max_epoch) == 0..max_epoch

\* mutant: the frequency is counted from the first epoch
SavesCkpt_FromOne(e, save_ckpt_freq) == (e + 1) % save_ckpt_freq = 0

\* if epoch % cfg.save_ckpt_freq == 0
SavesCkpt(e, save_ckpt_freq) == e % save_ckpt_freq = 0

\* the checkpoint directory of an earlier run of the same experiment
EarlierRun == [q \in {CkptPath(1)} |-> CkptDict(1, 1, 1, 1)]

Configs ==
    [max_epoch : 0..MaxEpochCfg, save_ckpt_freq : 1..MaxFreq, is_resume : BOOLEAN,
     ckpt_path : {None, PretrainedPath, MissingPath},
     n_train : 1..MaxBatches, n_valid : 1..MaxBatches]

InitTrain ==
    /\ LUTNew
    /\ PipelineNew
    /\ TestIdle
    /\ fs \in InitialFiles \cup {EarlierRun}
    /\ pc = "start"
    /\ cfg \in Configs
    /\ epoch = 0
    /\ step = 0
    /\ passes = [train |-> 0, valid |-> 0]
    /\ written = {}
    /\ events = << >>

\* a call made by run_train, with the pipeline state it left
Event(name, m, o, s) == [ev |-> name, st |-> <<m, o, s>>]

\* run_train up to self.optimizer, self.scheduler = model.get_optimizer(cfg)
RunTrainSetup ==
    /\ pc = "start"
    /\ has_opt' = TRUE
    /\ opt_state' = 0
    /\ sched_state' = 0
    /\ pc' = "load"
    /\ events' = Append(events, Event("get_optimizer", model_state, 0, 0))
    /\ UNCHANGED <<model_state, fs, ckpt_dir, raised, op, saved_at, cfg, epoch,
                   step, passes, written, lutVars, testVars>>

\* self.load_ckpt(model.cfg.ckpt_path, is_resume=is_resume); an exception
\* ends run_train
RunTrainLoad ==
    /\ pc = "load"
    /\ LET out == load_ckpt(fs, has_opt, model_state, opt_state, sched_state,
                            cfg.ckpt_path, cfg.is_resume)
       IN /\ ckpt_dir' = TRUE
          /\ raised' = out.raised
          /\ model_state' = out.model
          /\ opt_state' = out.opt
          /\ sched_state' = out.sched
          /\ pc' = IF out.raised = "none" THEN "epoch" ELSE "raised"
          /\ events' = Append(events, Event("load_ckpt", out.model, out.opt, out.sched))
    /\ epoch' = 0
    /\ UNCHANGED <<has_opt, fs, op, saved_at, cfg, step, passes, written, lutVars, testVars>>

\* the head of the for loop, and the reset at the top of its body
EpochBegin ==
    /\ pc = "epoch"
    /\ pc' = IF epoch \in EpochRange(cfg.max_epoch) THEN "train" ELSE "done"
    /\ events' = IF epoch \in EpochRange(cfg.max_epoch) THEN << >> ELSE events
    /\ step' = 0
    /\ UNCHANGED <<ckptVars, cfg, epoch, passes, written, lutVars, testVars>>

\* one batch of train_loader: skipped (continue) when predict_scores is
\* empty, else loss.backward() and self.optimizer.step()
TrainBatch ==
    /\ pc = "train"
    /\ step < cfg.n_train
    /\ \E skipped \in BOOLEAN :
          IF skipped
          THEN /\ UNCHANGED <<model_state, opt_state>>
               /\ events' = Append(events,
                     Event("train_batch", model_state, opt_state, sched_state))
          ELSE /\ model_state' = Stepped(model_state)
               /\ opt_state' = Stepped(opt_state)
               /\ events' = events \o
                     << Event("train_batch", model_state, opt_state, sched_state),
                        Event("optimizer.step", Stepped(model_state),
                              Stepped(opt_state), sched_state) >>
    /\ step' = step + 1
    /\ UNCHANGED <<sched_state, has_opt, fs, ckpt_dir, raised, op, saved_at, pc,
                   cfg, epoch, passes, written, lutVars, testVars>>

\* train_loader is exhausted: self.scheduler.step(), model.eval()
TrainEnd ==
    /\ pc = "train"
    /\ step = cfg.n_train
    /\ sched_state' = Stepped(sched_state)
    /\ events' = Append(events, Event("scheduler.step", model_state, opt_state,
                                      Stepped(sched_state)))
    /\ passes' = [passes EXCEPT !.train = @ + 1]
    /\ pc' = "valid"
    /\ step' = 0
    /\ UNCHANGED <<model_state, opt_state, has_opt, fs, ckpt_dir, raised, op,
                   saved_at, cfg, epoch, written, lutVars, testVars>>

\* mutant: a validation batch runs the optimizer too
ValidBatch_OptimizerStep ==
    /\ pc = "valid"
    /\ step < cfg.n_valid
    /\ step' = step + 1
    /\ model_state' = Stepped(model_state)
    /\ opt_state' = Stepped(opt_state)
    /\ events' = Append(events, Event("valid_batch", Stepped(model_state),
                                      Stepped(opt_state), sched_state))
    /\ UNCHANGED <<sched_state, has_opt, fs, ckpt_dir, raised, op, saved_at, pc,
                   cfg, epoch, passes, written, lutVars, testVars>>

\* one batch of valid_loader, under torch.no_grad()
ValidBatch ==
    /\ pc = "valid"
    /\ step < cfg.n_valid
    /\ step' = step + 1
    /\ events' = Append(events, Event("valid_batch", model_state, opt_state, sched_state))
    /\ UNCHANGED <<ckptVars, pc, cfg, epoch, passes, written, lutVars, testVars>>

\* valid_loader is exhausted: self.save_logs(writer, epoch)
SaveLogs ==
    /\ pc = "valid"
    /\ step = cfg.n_valid
    /\ passes' = [passes EXCEPT !.valid = @ + 1]
    /\ events' = Append(events, Event("save_logs", model_state, opt_state, sched_state))
    /\ pc' = "ckpt"
    /\ UNCHANGED <<ckptVars, cfg, epoch, step, written, lutVars, testVars>>

\* if epoch % cfg.save_ckpt_freq == 0: self.save_ckpt(epoch); next epoch
EpochEnd ==
    /\ pc = "ckpt"
    /\ IF SavesCkpt(epoch, cfg.save_ckpt_freq)
       THEN /\ fs' = TorchSave(fs, CkptPath(epoch),
                        CkptDict(epoch, model_state, opt_state, sched_state))
            /\ saved_at' = [q \in DOMAIN saved_at \cup {CkptPath(epoch)} |->
                              IF q = CkptPath(epoch)
                              THEN <<model_state, opt_state, sched_state>>
                              ELSE saved_at[q]]
            /\ written' = written \cup {[epoch |-> epoch, path |-> CkptPath(epoch)]}
            /\ events' = Append(events,
                  Event("save_ckpt", model_state, opt_state, sched_state))
       ELSE UNCHANGED <<fs, saved_at, written, events>>
    /\ epoch' = epoch + 1
    /\ pc' = "epoch"
    /\ UNCHANGED <<model_state, opt_state, sched_state, has_opt, ckpt_dir, raised,
                   op, cfg, step, passes, lutVars, testVars>>

NextTrain ==
    \/ RunTrainSetup \/ RunTrainLoad \/ EpochBegin \/ TrainBatch \/ TrainEnd
    \/ ValidBatch \/ SaveLogs \/ EpochEnd

SpecTrain == InitTrain /\ [][NextTrain]_vars

\* C4 (as stated): run_train with max_epoch = N has run the epoch body, one
\* training pass followed by one validation pass, exactly N times when it
\* returns.
C4_RunsMaxEpochBodies ==
    pc = "done" => passes.train = cfg.max_epoch /\ passes.valid = cfg.max_epoch

\* C4 (amended): run_train with max_epoch = N runs the epoch body exactly
\* N + 1 times, for the epochs 0..N; each body is one training pass followed
\* by one validation pass.
C4_RunsMaxEpochPlusOneBodies ==
    /\ passes.valid <= passes.train
    /\ passes.train <= passes.valid + 1
    /\ (pc \in {"epoch", "done"} => passes.train = epoch /\ passes.valid = epoch)
    /\ (pc = "done" => passes.train = cfg.max_epoch + 1
                       /\ passes.valid = cfg.max_epoch + 1)

\* C4 witness: run_train with max_epoch = 2 has returned after three bodies.
C4_Witness ==
    pc = "done" /\ cfg.max_epoch = 2 /\ passes = [train |-> 3, valid |-> 3]

\* the file names the claim gives, epoch by epoch
ExpectedCkptFile ==
    << "./logs/checkpoint/ckpt_00000.pth", "./logs/checkpoint/ckpt_00001.pth",
       "./logs/checkpoint/ckpt_00002.pth", "./logs/checkpoint/ckpt_00003.pth",
       "./logs/checkpoint/ckpt_00004.pth", "./logs/checkpoint/ckpt_00005.pth" >>

Divisible(e, d) == \E k \in 0..e : e = k * d

\* C7: between epochs and when run_train has returned, the checkpoints
\* written so far are exactly those of the finished epochs e divisible by
\* save_ckpt_freq (all of 0..max_epoch at the end), each stored as
\* ckpt_<e zero-padded to 5 digits>.pth with its epoch field equal to e.
C7_CheckpointsAtFrequency ==
    pc \in {"epoch", "done"} =>
       /\ written = { [epoch |-> e, path |-> ExpectedCkptFile[e + 1]] :
                        e \in {d \in 0..(epoch - 1) : Divisible(d, cfg.save_ckpt_freq)} }
       /\ \A w \in written : w.path \in DOMAIN fs /\ fs[w.path].epoch = w.epoch
       /\ (pc = "done" => epoch = cfg.max_epoch + 1)

\* C7 witness: run_train with max_epoch = 2 and save_ckpt_freq = 2 has
\* returned, having written the checkpoints of epochs 0 and 2 and not 1.
C7_Witness ==
    /\ pc = "done"
    /\ cfg.max_epoch = 2
    /\ cfg.save_ckpt_freq = 2
    /\ {w.epoch : w \in written} = {0, 2}

\* the place of a call in run_train: the two calls before the loop, then the
\* five phases of an epoch body
Phase(name) ==
    CASE name = "get_optimizer" -> 1
      [] name = "load_ckpt" -> 2
      [] name \in {"train_batch", "optimizer.step"} -> 3
      [] name = "scheduler.step" -> 4
      [] name = "valid_batch" -> 5
      [] name = "save_logs" -> 6
      [] name = "save_ckpt" -> 7

Calls(name) == {i \in DOMAIN events : events[i].ev = name}

BodyFinished == pc \in {"epoch", "done"} /\ epoch > 0

\* C12: run_train creates the optimizer and scheduler, then calls load_ckpt,
\* and only then enters the loop; the calls of an epoch body come in the
\* order training batches (each optimizer.step inside its batch), one
\* scheduler.step, validation batches, one save_logs, at most one save_ckpt;
\* a finished body processed every training and validation batch; nothing
\* from scheduler.step on changes the pipeline state, so the checkpoint of
\* epoch e holds the state left by that epoch's training and scheduler step.
C12_RunTrainOrder ==
    /\ \A i, j \in DOMAIN events :
          i < j => Phase(events[i].ev) <= Phase(events[j].ev)
    /\ \A name \in {"get_optimizer", "load_ckpt", "scheduler.step",
                    "save_logs", "save_ckpt"} : Cardinality(Calls(name)) <= 1
    /\ \A i \in Calls("optimizer.step") : i > 1 /\ events[i - 1].ev = "train_batch"
    /\ (pc = "load" => has_opt /\ [i \in DOMAIN events |-> events[i].ev] = <<"get_optimizer">>)
    /\ ((pc = "raised" \/ (pc = "epoch" /\ epoch = 0)) =>
          /\ [i \in DOMAIN events |-> events[i].ev] = <<"get_optimizer", "load_ckpt">>
          /\ passes.train = 0)
    /\ (pc \in {"train", "valid", "ckpt"} \/ BodyFinished =>
          Calls("get_optimizer") = {} /\ Calls("load_ckpt") = {})
    /\ (pc \in {"valid", "ckpt"} \/ BodyFinished =>
          /\ Cardinality(Calls("train_batch")) = cfg.n_train
          /\ Cardinality(Calls("scheduler.step")) = 1)
    /\ (pc = "ckpt" \/ BodyFinished =>
          /\ Cardinality(Calls("valid_batch")) = cfg.n_valid
          /\ Cardinality(Calls("save_logs")) = 1)
    /\ (BodyFinished =>
          (Calls("save_ckpt") # {} <=> Divisible(epoch - 1, cfg.save_ckpt_freq)))
    /\ \A i \in Calls("scheduler.step") :
          /\ \A j \in DOMAIN events : j > i => events[j].st = events[i].st
          /\ (BodyFinished /\ Calls("save_ckpt") # {} =>
                /\ ExpectedCkptFile[epoch] \in DOMAIN fs
                /\ fs[ExpectedCkptFile[epoch]] =
                     [epoch |-> epoch - 1,
                      model_state_dict |-> events[i].st[1],
                      optimizer_state_dict |-> events[i].st[2],
                      scheduler_state_dict |-> events[i].st[3]])

\* C12 witness: the body of epoch 1 is finished after two training batches
\* (one skipped, one with its optimizer.step), the scheduler step, two
\* validation batches, save_logs and save_ckpt.
C12_Witness ==
    /\ pc = "epoch"
    /\ epoch = 2
    /\ [i \in DOMAIN events |-> events[i].ev] =
          << "train_batch", "train_batch", "optimizer.step", "scheduler.step",
             "valid_batch", "valid_batch", "save_logs", "save_ckpt" >>

\* ------------------------------------------------- run_test / update_tests
\* this_possiblility[this_possiblility > end_threshold].shape[0]
NumAbove(this_possibility) ==
    Cardinality({i \in DOMAIN this_possibility : this_possibility[i] > end_threshold})

\* mutant: a point at the threshold counts as covered
Finalizes_AtThreshold(split, this_possibility) ==
    /\ split \in {"test"}
    /\ Cardinality({i \in DOMAIN this_possibility :
                      this_possibility[i] >= end_threshold})
         = Len(this_possibility)

\* split in ['test'] and (number of points above end_threshold) == shape[0]
Finalizes(split, this_possibility) ==
    /\ split \in {"test"}
    /\ NumAbove(this_possibility) = Len(this_possibility)

\* record_summary and 'test' not in self.summary
RecordsSummary(record_summary, the_summary) ==
    record_summary /\ "test" \notin DOMAIN the_summary

\* self.get_3d_summary(results, inputs, 0) for the batch at index k
Summary3D(k) == [semantic_segmentation |-> [batch |-> k]]

\* self.summary = {'test': {}}
EmptyTestSummary == [test |-> << >>]

TestConfigs ==
    [ckpt_path : {None, MissingPath},
     record_for : {{}, {"test"}, {"train", "valid"}}]

InitTest ==
    /\ LUTNew
    /\ PipelineNew
    /\ fs \in {<< >>, EarlierRun}
    /\ pc = "start"
    /\ cfg \in TestConfigs
    /\ epoch = 0
    /\ step = 0
    /\ passes = [train |-> 0, valid |-> 0]
    /\ written = {}
    /\ events = << >>
    /\ \E split \in {"test", "validation"} :
          sampler = [split |-> split, cloud_id |-> 0,
                     possibilities |->
                        [c \in 1..NumClouds |-> [i \in 1..NumPoints |-> 0]]]
    /\ curr_cloud_id = -1
    /\ test_probs = << >>
    /\ test_labels = << >>
    /\ ori_test_probs = << >>
    /\ ori_test_labels = << >>
    /\ complete_infer = "unset"
    /\ summary = << >>
    /\ saved = << >>

\* run_test up to log.info("Started testing"): self.load_ckpt(model.cfg.ckpt_path)
\* and the resets; an exception of load_ckpt ends run_test
RunTestSetup ==
    /\ pc = "start"
    /\ LET out == load_ckpt(fs, has_opt, model_state, opt_state, sched_state,
                            cfg.ckpt_path, TRUE)
       IN /\ ckpt_dir' = TRUE
          /\ raised' = out.raised
          /\ model_state' = out.model
          /\ opt_state' = out.opt
          /\ sched_state' = out.sched
          /\ IF out.raised = "none"
             THEN /\ pc' = "fetch"
                  /\ curr_cloud_id' = -1
                  /\ test_probs' = << >>
                  /\ test_labels' = << >>
                  /\ ori_test_probs' = << >>
                  /\ ori_test_labels' = << >>
                  /\ summary' = EmptyTestSummary
             ELSE /\ pc' = "raised"
                  /\ UNCHANGED <<curr_cloud_id, test_probs, test_labels,
                                 ori_test_probs, ori_test_labels, summary>>
    /\ UNCHANGED <<has_opt, fs, op, saved_at, cfg, epoch, step, passes, written, events,
                   sampler, complete_infer, saved, lutVars>>

\* the possibilities of cloud c after the sampler drew windows from it: no
\* point's possibility decreases
Raised(poss) ==
    { p \in [1..NumPoints -> Possibility] : \A i \in 1..NumPoints : p[i] >= poss[i] }

\* test_loader yields the next batch: the sampler has drawn from its current
\* cloud or, once update_tests has seen that cloud, from the next one (clouds
\* come in the order 0, 1, ..., which test_probs[curr_cloud_id] relies on),
\* and has raised the possibilities of the points it drew
TestFetch ==
    /\ pc = "fetch"
    /\ step < MaxTestBatches
    /\ \E c \in {sampler.cloud_id, sampler.cloud_id + 1} :
          /\ c < NumClouds
          /\ c # sampler.cloud_id => curr_cloud_id = sampler.cloud_id
          /\ \E p \in Raised(sampler.possibilities[c + 1]) :
                sampler' = [sampler EXCEPT !.cloud_id = c,
                                           !.possibilities[c + 1] = p]
    /\ pc' = "update"
    /\ UNCHANGED <<ckptVars, cfg, epoch, step, passes, written, events, curr_cloud_id,
                   test_probs, test_labels, ori_test_probs, ori_test_labels,
                   complete_infer, summary, saved, lutVars>>

\* test_loader is exhausted
TestDone ==
    /\ pc = "fetch"
    /\ pc' = "done"
    /\ UNCHANGED <<ckptVars, cfg, epoch, step, passes, written, events, testVars, lutVars>>

\* self.update_tests(test_sampler, inputs, results)
UpdateTests ==
    /\ pc = "update"
    /\ LET new_cloud == curr_cloud_id # sampler.cloud_id
           cur == sampler.cloud_id
           probs == IF new_cloud THEN Append(test_probs, 0) ELSE test_probs
           labs == IF new_cloud THEN Append(test_labels, 0) ELSE test_labels
           this_possibility == sampler.possibilities[sampler.cloud_id + 1]
           \* self.model.update_probs accumulates one more batch
           probs2 == [probs EXCEPT ![cur + 1] = @ + 1]
           labs2 == [labs EXCEPT ![cur + 1] = @ + 1]
       IN /\ curr_cloud_id' = cur
          /\ test_probs' = probs2
          /\ test_labels' = labs2
          /\ IF Finalizes(sampler.split, this_possibility)
             THEN /\ ori_test_probs' =
                        Append(ori_test_probs, [cloud |-> cur, probs |-> probs2[cur + 1]])
                  /\ ori_test_labels' =
                        Append(ori_test_labels, [cloud |-> cur, labels |-> labs2[cur + 1]])
                  /\ complete_infer' = TRUE
             ELSE /\ UNCHANGED <<ori_test_probs, ori_test_labels>>
                  /\ complete_infer' = IF new_cloud THEN FALSE ELSE complete_infer
    /\ pc' = "post"
    /\ UNCHANGED <<ckptVars, cfg, epoch, step, passes, written, events, sampler, summary,
                   saved, lutVars>>

\* the rest of the loop body of run_test: if self.complete_infer, pop the
\* result (IndexError on an empty list), save it and record the summary
RunTestPost ==
    /\ pc = "post"
    /\ IF complete_infer = TRUE /\ ori_test_labels = << >>
       THEN /\ pc' = "raised"
            /\ raised' = "IndexError"
            /\ UNCHANGED <<ori_test_probs, ori_test_labels, saved, summary, step>>
       ELSE /\ pc' = "fetch"
            /\ step' = step + 1
            /\ UNCHANGED raised
            /\ IF complete_infer = TRUE
               THEN /\ ori_test_labels' =
                          SubSeq(ori_test_labels, 1, Len(ori_test_labels) - 1)
                    /\ ori_test_probs' =
                          SubSeq(ori_test_probs, 1, Len(ori_test_probs) - 1)
                    /\ saved' = Append(saved,
                          [batch |-> step, cloud_id |-> sampler.cloud_id,
                           predict_labels |-> ori_test_labels[Len(ori_test_labels)],
                           predict_scores |-> ori_test_probs[Len(ori_test_probs)]])
                    /\ summary' =
                          IF RecordsSummary("test" \in cfg.record_for, summary)
                          THEN [q \in DOMAIN summary \cup {"test"} |-> Summary3D(step)]
                          ELSE summary
               ELSE UNCHANGED <<ori_test_probs, ori_test_labels, saved, summary>>
    /\ UNCHANGED <<model_state, opt_state, sched_state, has_opt, fs, ckpt_dir, op,
                   saved_at, cfg, epoch, passes, written, events, sampler, curr_cloud_id,
                   test_probs, test_labels, complete_infer, lutVars>>

NextTest == RunTestSetup \/ TestFetch \/ TestDone \/ UpdateTests \/ RunTestPost

SpecTest == InitTest /\ [][NextTest]_vars

\* the condition the claim states: the split is 'test' and every point of
\* the sampler's current cloud has possibility above 0.5
AllPointsCovered ==
    /\ sampler.split = "test"
    /\ \A i \in 1..NumPoints :
          sampler.possibilities[sampler.cloud_id + 1][i] > end_threshold

\* C2: an update_tests call appends one entry to ori_test_probs and one to
\* ori_test_labels and sets complete_infer to True if the sampler split is
\* 'test' and every point of the current cloud has possibility strictly
\* above 0.5; otherwise it appends nothing to either list.
C2_FinalizesIffCovered ==
    [][ pc = "update" =>
          IF AllPointsCovered
          THEN /\ Len(ori_test_probs') = Len(ori_test_probs) + 1
               /\ Len(ori_test_labels') = Len(ori_test_labels) + 1
               /\ ori_test_probs'[Len(ori_test_probs')].cloud = sampler.cloud_id
               /\ ori_test_labels'[Len(ori_test_labels')].cloud = sampler.cloud_id
               /\ complete_infer' = TRUE
          ELSE /\ ori_test_probs' = ori_test_probs
               /\ ori_test_labels' = ori_test_labels ]_vars

\* C2 witness: update_tests has just finalized the second cloud, after calls
\* that did not finalize.
C2_Witness ==
    /\ pc = "post"
    /\ AllPointsCovered
    /\ sampler.cloud_id = 1
    /\ complete_infer = TRUE
    /\ Len(ori_test_probs) = 1
    /\ test_probs[2] >= 2

\* a call that leaves a point exactly at the threshold does not finalize
AtThresholdNotFinal ==
    /\ pc = "post"
    /\ sampler.split = "test"
    /\ \A i \in 1..NumPoints :
          sampler.possibilities[sampler.cloud_id + 1][i] >= end_threshold
    /\ complete_infer = FALSE

\* C9: when 'test' is in record_for, self.summary['test'] holds the 3D
\* summary of the first batch whose cloud completed inference, and of no
\* later batch.
C9_FirstCompletedBatchRecorded ==
    ("test" \in cfg.record_for /\ pc \in {"fetch", "done"} /\ saved # << >>) =>
        /\ "test" \in DOMAIN summary
        /\ summary["test"] = Summary3D(saved[1].batch)

====
